---- MODULE Spec2Model ----
(***************************************************************************)
(* A model of vidcoder4.py: the VideoProcessor pipeline (validate, probe,  *)
(* combine, segment loop, cleanup), the background thread that runs it,    *)
(* and the Tk event loop that submits jobs and polls the two queues.       *)
(*                                                                         *)
(* Text (paths, timestamps, messages, argv words) is a sequence of atoms.  *)
(* An atom is a one-character string, or a longer string standing for a    *)
(* literal of the source that holds none of the characters the program     *)
(* looks for (':', '-', '\', '/', '.', digits in a timestamp position,     *)
(* upper-case letters, white space).                                       *)
(* Progress values are exact rationals stored as integers in units of      *)
(* 1/PU percent, so 0.1 is PU \div 10 units and 70/N is exact for the      *)
(* segment counts the bounds allow.  Python computes them in binary        *)
(* floating point; rounding errors are not modelled.                       *)
(***************************************************************************)
EXTENDS Integers, Sequences, FiniteSets, TLC

(***************************************************************************)
(* Bounds of the model.                                                    *)
(***************************************************************************)
\* threads the application may start (submissions that pass the parser)
MaxRuns == 1
\* user inputs (file selections, text edits) over the life of the window
MaxEdits == 4
\* polls of the combine child that may find it alive in one run
MaxCombineTicks == 1

(***************************************************************************)
(* Python values.                                                          *)
(***************************************************************************)
None == <<"None">>

Digits == {"0", "1", "2", "3", "4", "5", "6", "7", "8", "9"}

DigitVal(c) ==
    CASE c = "0" -> 0 [] c = "1" -> 1 [] c = "2" -> 2 [] c = "3" -> 3
      [] c = "4" -> 4 [] c = "5" -> 5 [] c = "6" -> 6 [] c = "7" -> 7
      [] c = "8" -> 8 [] c = "9" -> 9

DigitChar(d) ==
    CASE d = 0 -> "0" [] d = 1 -> "1" [] d = 2 -> "2" [] d = 3 -> "3"
      [] d = 4 -> "4" [] d = 5 -> "5" [] d = 6 -> "6" [] d = 7 -> "7"
      [] d = 8 -> "8" [] d = 9 -> "9"

\* str(n) for an int n: its decimal digits, after '-' when n < 0
RECURSIVE str_int(_)
str_int(n) ==
    IF n < 0 THEN <<"-">> \o str_int(-n)
    ELSE IF n < 10 THEN <<DigitChar(n)>>
    ELSE str_int(n \div 10) \o <<DigitChar(n % 10)>>

\* int(s) for text of decimal digits; ok is FALSE where int() raises ValueError
RECURSIVE DigitsValue(_)
DigitsValue(s) ==
    IF s = <<>> THEN 0
    ELSE 10 * DigitsValue(SubSeq(s, 1, Len(s) - 1)) + DigitVal(s[Len(s)])

int(s) ==
    IF s # <<>> /\ \A i \in 1..Len(s) : s[i] \in Digits
    THEN [ok |-> TRUE, val |-> DigitsValue(s)]
    ELSE [ok |-> FALSE, val |-> 0]

\* s.replace(a, b) for one-character a and b
replace(s, a, b) == [i \in 1..Len(s) |-> IF s[i] = a THEN b ELSE s[i]]

\* s.lower(), on the letters the model's paths use
LowerChar(c) ==
    CASE c = "M" -> "m" [] c = "P" -> "p" [] c = "A" -> "a" [] c = "C" -> "c"
      [] c = "W" -> "w" [] c = "V" -> "v"
      [] OTHER -> c

lower(s) == [i \in 1..Len(s) |-> LowerChar(s[i])]

\* s.endswith(suffix)
endswith(s, suffix) ==
    /\ Len(s) >= Len(suffix)
    /\ SubSeq(s, Len(s) - Len(suffix) + 1, Len(s)) = suffix

\* s.split(sep) for a one-character sep: the pieces, in order
RECURSIVE split(_, _)
split(s, sep) ==
    IF \A i \in 1..Len(s) : s[i] # sep THEN <<s>>
    ELSE LET k == CHOOSE i \in 1..Len(s) :
                      s[i] = sep /\ \A j \in 1..(i - 1) : s[j] # sep
         IN  <<SubSeq(s, 1, k - 1)>> \o split(SubSeq(s, k + 1, Len(s)), sep)

Whitespace == {" ", "\t", "\n", "\r"}

\* s.strip(): leading and trailing white space removed
RECURSIVE strip(_)
strip(s) ==
    IF s = <<>> THEN s
    ELSE IF s[1] \in Whitespace THEN strip(Tail(s))
    ELSE IF s[Len(s)] \in Whitespace THEN strip(SubSeq(s, 1, Len(s) - 1))
    ELSE s

\* needle occurs in hay as a contiguous run of atoms
Contains(hay, needle) ==
    \E i \in 1..(Len(hay) - Len(needle) + 1) :
        SubSeq(hay, i, i + Len(needle) - 1) = needle

(***************************************************************************)
(* VideoProcessor.convert_timestamp.  The result is [ok, val, err]: ok is  *)
(* FALSE where the method raises ValueError, err is the message.           *)
(***************************************************************************)
\* a conversion that forgets the minutes' weight
to_seconds_unweighted(minutes, seconds) == minutes + seconds

\* line 63
to_seconds(minutes, seconds) == minutes * 60 + seconds

convert_timestamp(timestamp) ==
    LET parts == split(timestamp, ":")
        bad1 == [ok |-> FALSE, val |-> 0,
                 err |-> <<"Invalid timestamp format: ">> \o timestamp
                         \o <<". Use MM:SS format.">>]
        bad2 == [ok |-> FALSE, val |-> 0,
                 err |-> <<"Invalid timestamp format: ">> \o timestamp
                         \o <<". Use MM:SS format with numbers only.">>]
    IN  IF Len(parts) # 2 THEN bad1
        ELSE LET minutes == int(parts[1])
                 seconds == int(parts[2])
             IN  IF ~minutes.ok \/ ~seconds.ok THEN bad2
                 ELSE IF seconds.val >= 60 THEN bad2
                 ELSE [ok |-> TRUE, val |-> to_seconds(minutes.val, seconds.val),
                       err |-> <<>>]

(***************************************************************************)
(* Application.parse_timestamps.                                           *)
(***************************************************************************)
\* pattern.match(line) for r'(\d{2}:\d{2})-(\d{2}:\d{2})': re.match anchors
\* the pattern at the start of the line only
pattern_match(line) ==
    /\ Len(line) >= 11
    /\ \A i \in {1, 2, 4, 5, 7, 8, 10, 11} : line[i] \in Digits
    /\ line[3] = ":"
    /\ line[6] = "-"
    /\ line[9] = ":"

TimeSegment(start, end) == [start |-> start, end |-> end]

\* the for loop over the lines, from the list built so far
RECURSIVE parse_lines(_, _)
parse_lines(lines, timestamps) ==
    IF lines = <<>>
    THEN IF timestamps = <<>>
         THEN [ok |-> FALSE, val |-> <<>>, err |-> <<"No timestamps provided">>]
         ELSE [ok |-> TRUE, val |-> timestamps, err |-> <<>>]
    ELSE LET line == strip(Head(lines))
         IN  IF line = <<>> THEN parse_lines(Tail(lines), timestamps)
             ELSE IF ~pattern_match(line)
             THEN [ok |-> FALSE, val |-> <<>>,
                   err |-> <<"Invalid timestamp format: ">> \o line
                           \o <<"\nUse MM:SS-MM:SS format (e.g., 00:30-01:00)">>]
             ELSE LET start == SubSeq(line, 1, 5)
                      end == SubSeq(line, 7, 11)
                      cs == convert_timestamp(start)
                      ce == convert_timestamp(end)
                  IN  IF ~cs.ok THEN [ok |-> FALSE, val |-> <<>>, err |-> cs.err]
                      ELSE IF ~ce.ok
                      THEN [ok |-> FALSE, val |-> <<>>, err |-> ce.err]
                      ELSE parse_lines(Tail(lines),
                                       Append(timestamps, TimeSegment(start, end)))

\* text is what the widget holds; get("1.0", tk.END) returns it with the
\* newline Tk appends
parse_timestamps(text) == parse_lines(split(text \o <<"\n">>, "\n"), <<>>)

(***************************************************************************)
(* The values the user and the environment supply.                         *)
(***************************************************************************)
Mp4Top == <<"t", ".", "m", "p", "4">>
MovTop == <<"t", ".", "m", "o", "v">>
Mp4Bottom == <<"b", ".", "m", "p", "4">>
MovBottom == <<"b", ".", "m", "o", "v">>
Mp3Audio == <<"a", ".", "M", "P", "3">>
TxtAudio == <<"a", ".", "t", "x", "t">>

\* what the file dialogs can return (a cancelled dialog changes nothing)
VideoFiles(target) ==
    IF target = "top" THEN {Mp4Top, MovTop} ELSE {Mp4Bottom, MovBottom}
AudioFiles == {Mp3Audio, TxtAudio}
Dirs == {<<"o">>, <<"p">>}

Range(a, b, c, d) ==
    <<a[1], a[2], ":", b[1], b[2], "-", c[1], c[2], ":", d[1], d[2]>>

\* default_timestamps, the text the widget is created with
default_timestamps ==
    Range(<<"0","0">>, <<"0","0">>, <<"0","0">>, <<"3","0">>) \o <<"\n">>
    \o Range(<<"0","0">>, <<"3","0">>, <<"0","1">>, <<"0","0">>) \o <<"\n">>
    \o Range(<<"0","1">>, <<"0","0">>, <<"0","1">>, <<"3","0">>)

\* what the user may type into the timestamps widget
TextTrailing ==
    <<" ">> \o Range(<<"0","0">>, <<"0","0">>, <<"0","0">>, <<"3","0">>) \o <<"x">>
TextBad == <<"b", "a", "d">>
TextBadSecond ==
    Range(<<"0","0">>, <<"0","0">>, <<"0","0">>, <<"3","0">>) \o <<"\n">> \o TextBad
TextSeconds == Range(<<"0","0">>, <<"6","1">>, <<"0","1">>, <<"0","0">>)
TextBlank == <<" ", "\n">>
\* a range that ends before it starts
TextReversed == Range(<<"0","0">>, <<"3","0">>, <<"0","0">>, <<"0","0">>)
\* the same range on two lines
TextDuplicate ==
    Range(<<"0","0">>, <<"0","0">>, <<"0","0">>, <<"3","0">>) \o <<"\n">>
    \o Range(<<"0","0">>, <<"0","0">>, <<"0","0">>, <<"3","0">>)
Texts ==
    {TextTrailing, TextBad, TextBadSecond, TextSeconds, TextBlank, TextReversed,
     TextDuplicate}

\* what a child process may leave on its stderr pipe: bytes
StderrText == <<69>>
StderrBinary == <<255>>

\* bytes.decode() (UTF-8, strict) on the bytes above: a byte below 128 is the
\* ASCII character, the byte 255 occurs in no UTF-8 encoding
Chr(b) == IF b = 69 THEN "E" ELSE "?"

decode(bytes) ==
    IF \A i \in 1..Len(bytes) : bytes[i] < 128
    THEN [ok |-> TRUE, val |-> [i \in 1..Len(bytes) |-> Chr(bytes[i])]]
    ELSE [ok |-> FALSE,
          val |-> <<"'utf-8' codec can't decode byte">>]

\* os.sep where the program is meant to run (its help text is for Windows)
os_sep == "\\"
\* os.path.join(a, b)
join(a, b) == a \o <<os_sep>> \o b

temp_path(dir) == replace(join(dir, <<"temp_combined.mp4">>), "\\", "/")

(***************************************************************************)
(* Progress arithmetic.                                                    *)
(***************************************************************************)
\* units per percent
PU == 60
Percent(n) == n * PU
\* progress += 0.1
ProgressStep == PU \div 10
\* while ... progress < 98
ProgressCeiling == 98
\* self.progress_queue.put(30)
CombineCheckpoint == 30
\* the share of the scale the segments divide among them
SegmentShare == 70
\* for i in range(10)
RampSteps == 10

progress_start(index, total) ==
    Percent(CombineCheckpoint) + (Percent(SegmentShare) * (index - 1)) \div total
progress_end(index, total) ==
    Percent(CombineCheckpoint) + (Percent(SegmentShare) * index) \div total
progress_step(index, total) ==
    (progress_end(index, total) - progress_start(index, total)) \div RampSteps

(***************************************************************************)
(* State.                                                                  *)
(***************************************************************************)
VARIABLES
    \* VideoProcessor
    top_video, bottom_video, audio_file, output_dir, has_nvidia,
    progress_queue, status_queue,
    \* how 'ffmpeg -encoders' ended when the processor was constructed
    nvidia_query,
    \* a call of convert_timestamp: its argument and what it returned
    convert_call,
    \* Application: widgets and the Tk event loop
    timestamps_text, process_btn, status_label, progress_bar, messagebox,
    after_queue, polling, ui_pc,
    \* the background threads, by number, and how many were started
    thread, nthreads,
    \* the file system: the paths that exist
    files,
    \* user inputs so far
    edits

vars == <<top_video, bottom_video, audio_file, output_dir, has_nvidia,
          nvidia_query, convert_call,
          progress_queue, status_queue,
          timestamps_text, process_btn, status_label, progress_bar, messagebox,
          after_queue, polling, ui_pc, thread, nthreads, files, edits>>

processor_fields == <<top_video, bottom_video, audio_file, output_dir>>
queues == <<progress_queue, status_queue>>
widgets == <<process_btn, status_label, progress_bar, messagebox>>

Threads == 1..MaxRuns

NoExc == [type |-> "none", msg |-> <<>>]
Exception(type, msg) == [type |-> type, msg |-> msg]

\* messagebox: the last dialog shown
NoBox == [kind |-> "none", title |-> <<>>, message |-> <<>>]
Box(kind, title, message) == [kind |-> kind, title |-> title, message |-> message]

\* a thread that was not started, or whose last callback has run
NoThread ==
    [pc |-> "none", segments |-> <<>>, temp_output |-> None,
     command |-> <<>>, procs |-> <<>>, process |-> 0, progress |-> 0,
     index |-> 0, i |-> 0, output_file |-> None, exc |-> NoExc,
     \* history of the run, kept for the properties
     events |-> <<>>, last_put |-> -1]

\* how 'ffmpeg -encoders' may end: subprocess.run raised (no ffmpeg to run,
\* or output that text=True cannot decode), or the exit status and whether
\* stdout holds 'h264_nvenc'
Query(raised, returncode, lists) ==
    [raised |-> raised, returncode |-> returncode, lists |-> lists]
QueryRaised == Query(TRUE, 0, FALSE)
QueryListed == Query(FALSE, 0, TRUE)
Queries ==
    {QueryRaised} \cup {Query(FALSE, rc, lists) : rc \in {0, 1}, lists \in BOOLEAN}

\* lines 29-35
check_nvidia_gpu(query) ==
    IF query.raised THEN FALSE ELSE query.lists

\* no call of convert_timestamp under way
NoResult == [ok |-> FALSE, val |-> 0, err |-> <<>>]
NoCall == [timestamp |-> None, returned |-> FALSE, result |-> NoResult]

\* VideoProcessor() and Application(): the state once the window is shown
Constructed(queries) ==
    /\ top_video = None
    /\ bottom_video = None
    /\ audio_file = None
    /\ output_dir = None
    /\ nvidia_query \in queries
    /\ has_nvidia = check_nvidia_gpu(nvidia_query)
    /\ progress_queue = <<>>
    /\ status_queue = <<>>
    /\ timestamps_text = default_timestamps
    /\ process_btn = "normal"
    /\ status_label = <<"Ready">>
    /\ progress_bar = 0
    /\ messagebox = NoBox
    /\ after_queue = <<>>
    /\ polling = FALSE
    /\ ui_pc = "idle"
    /\ thread = [t \in Threads |-> NoThread]
    /\ nthreads = 0
    \* the output directory may hold what an earlier execution of the program
    \* left behind
    /\ files \in {{}, {temp_path(d) : d \in Dirs}}
    /\ edits = 0

Init == Constructed({QueryRaised, QueryListed}) /\ convert_call = NoCall

(***************************************************************************)
(* The user: file dialogs and the timestamps widget.  Tk runs one callback *)
(* at a time, so each needs the event loop idle.                           *)
(***************************************************************************)
select_file(target) ==
    /\ ui_pc = "idle"
    /\ edits < MaxEdits
    /\ \E filename \in VideoFiles(target) :
          IF target = "top"
          THEN top_video' = filename /\ UNCHANGED bottom_video
          ELSE bottom_video' = filename /\ UNCHANGED top_video
    /\ edits' = edits + 1
    /\ UNCHANGED <<audio_file, output_dir, has_nvidia, nvidia_query, convert_call, queues, timestamps_text,
                   widgets, after_queue, polling, ui_pc, thread, nthreads, files>>

select_audio ==
    /\ ui_pc = "idle"
    /\ edits < MaxEdits
    /\ \E filename \in AudioFiles : audio_file' = filename
    /\ edits' = edits + 1
    /\ UNCHANGED <<top_video, bottom_video, output_dir, has_nvidia, nvidia_query, convert_call, queues,
                   timestamps_text, widgets, after_queue, polling, ui_pc, thread,
                   nthreads, files>>

select_output_dir ==
    /\ ui_pc = "idle"
    /\ edits < MaxEdits
    /\ \E dirname \in Dirs : output_dir' = dirname
    /\ edits' = edits + 1
    /\ UNCHANGED <<top_video, bottom_video, audio_file, has_nvidia, nvidia_query, convert_call, queues,
                   timestamps_text, widgets, after_queue, polling, ui_pc, thread,
                   nthreads, files>>

\* the user replaces the content of timestamps_text
edit_timestamps ==
    /\ ui_pc = "idle"
    /\ edits < MaxEdits
    /\ \E text \in Texts : timestamps_text' = text
    /\ edits' = edits + 1
    /\ UNCHANGED <<processor_fields, has_nvidia, nvidia_query, convert_call, queues, widgets, after_queue,
                   polling, ui_pc, thread, nthreads, files>>

(***************************************************************************)
(* Application.check_queues: two loops, each emptying one queue, then the  *)
(* timer is set again.  A loop ends when it sees its queue empty, so it is *)
(* one step; the worker may run between the two.                           *)
(***************************************************************************)
\* the bar after update_progress was called with every queued value
drained_bar(bar, queue) == IF queue = <<>> THEN bar ELSE queue[Len(queue)]
\* the label after every queued status was applied
drained_label(label, queue) == IF queue = <<>> THEN label ELSE queue[Len(queue)]

\* the timer fires: the progress loop
check_queues_progress ==
    /\ ui_pc = "idle"
    /\ polling
    /\ progress_bar' = drained_bar(progress_bar, progress_queue)
    /\ progress_queue' = <<>>
    /\ ui_pc' = "cq392"
    /\ UNCHANGED <<processor_fields, has_nvidia, nvidia_query, convert_call,
                   status_queue, timestamps_text,
                   process_btn, status_label, messagebox, after_queue, polling,
                   thread, nthreads, files, edits>>

\* the status loop and self.after(100, self.check_queues)
check_queues_status ==
    /\ ui_pc = "cq392"
    /\ status_label' = drained_label(status_label, status_queue)
    /\ status_queue' = <<>>
    /\ ui_pc' = "idle"
    /\ UNCHANGED <<processor_fields, has_nvidia, nvidia_query, convert_call,
                   progress_queue, timestamps_text,
                   process_btn, progress_bar, messagebox, after_queue, polling,
                   thread, nthreads, files, edits>>

(***************************************************************************)
(* Application.process_videos, the command of process_btn.  A disabled Tk  *)
(* button does not invoke its command.                                     *)
(***************************************************************************)
\* a handler that leaves the button as it found it
normal_state == "normal"

\* self.process_btn.config(state=tk.DISABLED)
disabled_state == "disabled"

\* lines 399-406, to the end of the progress loop of check_queues(); or the
\* except branch when the parser raises
process_videos_click ==
    /\ ui_pc = "idle"
    /\ process_btn = "normal"
    /\ LET timestamps == parse_timestamps(timestamps_text)
       IN  IF timestamps.ok
           THEN /\ process_btn' = disabled_state
                /\ status_label' = <<"Starting...">>
                /\ progress_bar' = drained_bar(0, progress_queue)
                /\ progress_queue' = <<>>
                /\ thread' = [thread EXCEPT ![nthreads + 1] =
                                 [NoThread EXCEPT !.pc = "new",
                                                  !.segments = timestamps.val]]
                /\ ui_pc' = "cq392_click"
                /\ UNCHANGED messagebox
           ELSE /\ messagebox' = Box("error", <<"Error">>, timestamps.err)
                /\ process_btn' = "normal"
                /\ progress_bar' = 0
                /\ status_label' = <<"Error!">>
                /\ UNCHANGED <<progress_queue, thread, ui_pc>>
    /\ UNCHANGED <<processor_fields, has_nvidia, nvidia_query, convert_call,
                   status_queue, timestamps_text,
                   after_queue, polling, nthreads, files, edits>>

\* the status loop of check_queues(), its timer, and
\* threading.Thread(target=process_thread, daemon=True).start()
process_videos_start ==
    /\ ui_pc = "cq392_click"
    /\ status_label' = drained_label(status_label, status_queue)
    /\ status_queue' = <<>>
    /\ polling' = TRUE
    /\ thread' = [thread EXCEPT ![nthreads + 1].pc = "t411"]
    /\ nthreads' = nthreads + 1
    /\ ui_pc' = "idle"
    /\ UNCHANGED <<processor_fields, has_nvidia, nvidia_query, convert_call,
                   progress_queue, timestamps_text,
                   process_btn, progress_bar, messagebox, after_queue, files,
                   edits>>

(***************************************************************************)
(* The callbacks process_thread schedules with self.after(0, ...), run by  *)
(* the event loop in the order they were scheduled.                        *)
(***************************************************************************)
Callback(fn, t, arg) == [fn |-> fn, t |-> t, arg |-> arg]

after_callback ==
    /\ ui_pc = "idle"
    /\ after_queue # <<>>
    /\ LET cb == Head(after_queue)
       IN  /\ after_queue' = Tail(after_queue)
           /\ CASE cb.fn = "status" ->
                     /\ status_label' = cb.arg
                     /\ UNCHANGED <<messagebox, process_btn, thread>>
                [] cb.fn = "showinfo" ->
                     /\ messagebox' = Box("info", <<"Success">>, cb.arg)
                     /\ UNCHANGED <<status_label, process_btn, thread>>
                [] cb.fn = "showerror" ->
                     \* str(e) in the lambda: e is unbound once the except
                     \* block has ended, and the callback then raises
                     \* NameError, which Tk reports and drops
                     /\ \/ messagebox' = Box("error", <<"Error">>, cb.arg)
                        \/ UNCHANGED messagebox
                     /\ UNCHANGED <<status_label, process_btn, thread>>
                [] cb.fn = "enable" ->
                     /\ process_btn' = "normal"
                     \* the thread has ended: its frame is gone
                     /\ thread' = [thread EXCEPT ![cb.t] = NoThread]
                     /\ UNCHANGED <<status_label, messagebox>>
    /\ UNCHANGED <<processor_fields, has_nvidia, nvidia_query, convert_call, queues, timestamps_text,
                   progress_bar, polling, ui_pc, nthreads, files, edits>>

(***************************************************************************)
(* VideoProcessor.process_videos, run by thread t.  A step is one access   *)
(* to what another thread or process can see (a field of the processor, a  *)
(* queue, a file, a child process) with the local computation around it.   *)
(* pc names the line the thread will run next.                             *)
(***************************************************************************)
worker_frame ==
    UNCHANGED <<processor_fields, has_nvidia, nvidia_query, convert_call, timestamps_text, process_btn,
                status_label, progress_bar, after_queue, polling, ui_pc,
                nthreads, edits>>

Event(op, k, arg) == [op |-> op, k |-> k, arg |-> arg]
Log(events, op, k, arg) == Append(events, Event(op, k, arg))

\* an exception raised before the try statement of line 100 leaves
\* process_videos at once
raise_outside(r, e) == [r EXCEPT !.pc = "t415", !.exc = e]

\* an exception raised in the try statement: line 223 wraps it, then the
\* finally clause runs
raise_in_try(r, e) ==
    [r EXCEPT !.pc = "l227",
              !.exc = Exception("RuntimeError",
                                <<"Video processing failed: ">> \o e.msg)]

\* an exception raised in process_segment: line 215 wraps it first
raise_in_segment(r, e) ==
    LET segment == r.segments[r.index]
    IN  raise_in_try([r EXCEPT !.events = Log(@, "raise", r.index, e.type)],
            Exception("RuntimeError",
                <<"Error processing segment ">> \o segment.start \o <<"-">>
                \o segment.end \o <<": ">> \o e.msg))

\* a Python value used as a condition
truthy(v) == v # None

\* line 68: check_ffmpeg() runs 'ffmpeg -version'; present is its outcome
check_ffmpeg(t) ==
    /\ thread[t].pc = "t411"
    /\ \E present \in BOOLEAN :
          IF present
          THEN /\ thread' = [thread EXCEPT ![t].pc = "l71"]
               /\ UNCHANGED messagebox
          ELSE \* messagebox.showerror, then return: process_videos returns None
               /\ thread' = [thread EXCEPT ![t].pc = "t412"]
               /\ messagebox' = Box("error", <<"FFmpeg Not Found">>,
                                    <<"FFmpeg is required but not found on your system.">>)
    /\ UNCHANGED <<queues, files>>
    /\ worker_frame

\* line 71
validate_required(t) ==
    /\ thread[t].pc = "l71"
    /\ thread' = [thread EXCEPT ![t] =
          IF truthy(top_video) /\ truthy(bottom_video) /\ truthy(output_dir)
          THEN [@ EXCEPT !.pc = "l75"]
          ELSE raise_outside(@, Exception("ValueError",
                   <<"Missing input files or output directory">>))]
    /\ UNCHANGED <<queues, messagebox, files>>
    /\ worker_frame

Mp4Suffix == <<".", "m", "p", "4">>

\* line 75
validate_mp4(t) ==
    /\ thread[t].pc = "l75"
    /\ thread' = [thread EXCEPT ![t] =
          IF ~endswith(top_video, Mp4Suffix) \/ ~endswith(bottom_video, Mp4Suffix)
          THEN raise_outside(@, Exception("ValueError",
                   <<"Input files must be mp4">>))
          ELSE [@ EXCEPT !.pc = "l79"]]
    /\ UNCHANGED <<queues, messagebox, files>>
    /\ worker_frame

AudioSuffixes ==
    {<<".", "m", "p", "3">>, <<".", "w", "a", "v">>, <<".", "m", "4", "a">>,
     <<".", "a", "a", "c">>}

\* line 79
validate_audio(t) ==
    /\ thread[t].pc = "l79"
    /\ thread' = [thread EXCEPT ![t] =
          IF truthy(audio_file)
             /\ ~\E suffix \in AudioSuffixes : endswith(lower(audio_file), suffix)
          THEN raise_outside(@, Exception("ValueError",
                   <<"Audio file must be mp3, wav, m4a, or aac format">>))
          ELSE [@ EXCEPT !.pc = "l82"]]
    /\ UNCHANGED <<queues, messagebox, files>>
    /\ worker_frame

\* line 82
status_analyzing(t) ==
    /\ thread[t].pc = "l82"
    /\ status_queue' = Append(status_queue, <<"Analyzing videos...">>)
    /\ thread' = [thread EXCEPT ![t] =
          [@ EXCEPT !.pc = "l85",
                    !.events = Log(@, "status", 0, <<"Analyzing videos...">>)]]
    /\ UNCHANGED <<progress_queue, messagebox, files>>
    /\ worker_frame

\* lines 85 and 87-88 (which = "top"), 86 and 89-90 (which = "bottom"):
\* ffmpeg.probe runs ffprobe and waits for it; it raises ffmpeg.Error when
\* ffprobe fails, and reading the first stream's width raises KeyError when
\* that stream is no video stream
probe(t, which) ==
    /\ thread[t].pc = (IF which = "top" THEN "l85" ELSE "l86")
    /\ \E ok \in BOOLEAN :
          thread' = [thread EXCEPT ![t] =
             LET probed == [@ EXCEPT !.events =
                               Log(@, "probe", 0,
                                   IF which = "top" THEN top_video
                                   ELSE bottom_video)]
             IN  IF ok
                 THEN [probed EXCEPT !.pc =
                          IF which = "top" THEN "l86" ELSE "l98"]
                 ELSE raise_outside(probed, Exception("Error",
                          <<"ffprobe error (see stderr output for detail)">>))]
    /\ UNCHANGED <<queues, messagebox, files>>
    /\ worker_frame

\* line 98
make_temp_output(t) ==
    /\ thread[t].pc = "l98"
    /\ thread' = [thread EXCEPT ![t] =
          [@ EXCEPT !.pc = "l101", !.temp_output = temp_path(output_dir)]]
    /\ UNCHANGED <<queues, messagebox, files>>
    /\ worker_frame

\* line 101, the first statement of the try
status_combining(t) ==
    /\ thread[t].pc = "l101"
    /\ status_queue' = Append(status_queue, <<"Combining videos...">>)
    /\ thread' = [thread EXCEPT ![t] =
          [@ EXCEPT !.pc = "l108",
                    !.events = Log(@, "status", 0, <<"Combining videos...">>)]]
    /\ UNCHANGED <<progress_queue, messagebox, files>>
    /\ worker_frame

video_encoder(nvidia) == IF nvidia THEN <<"h264_nvenc">> ELSE <<"libx264">>
encoder_preset(nvidia) == IF nvidia THEN <<"p1">> ELSE <<"ultrafast">>

\* lines 104-113: the encoder and the base command
command_base(t) ==
    /\ thread[t].pc = "l108"
    /\ thread' = [thread EXCEPT ![t] =
          [@ EXCEPT !.pc = "l116",
                    !.command = << <<"ffmpeg">>, <<"-hwaccel">>, <<"auto">>,
                                   <<"-i">>, replace(top_video, "\\", "/"),
                                   <<"-i">>, replace(bottom_video, "\\", "/") >>]]
    /\ UNCHANGED <<queues, messagebox, files>>
    /\ worker_frame

\* lines 116-128: the audio input, the filter and the video mapping.  The
\* crop sizes in the filter are not modelled.
command_audio_input(t) ==
    /\ thread[t].pc = "l116"
    /\ thread' = [thread EXCEPT ![t] =
          [@ EXCEPT !.pc = "l131",
                    !.command =
                       (IF truthy(audio_file)
                        THEN @ \o << <<"-i">>, replace(audio_file, "\\", "/") >>
                        ELSE @)
                       \o << <<"-filter_complex">>, <<"[top][bottom]vstack[v]">>,
                             <<"-map">>, <<"[v]">> >>]]
    /\ UNCHANGED <<queues, messagebox, files>>
    /\ worker_frame

\* lines 131-143: the audio mapping and the encoding parameters
command_audio_map(t) ==
    /\ thread[t].pc = "l131"
    /\ thread' = [thread EXCEPT ![t] =
          [@ EXCEPT !.pc = "l146",
                    !.command =
                       @ \o << <<"-map">>,
                               IF truthy(audio_file) THEN <<"2", ":", "a">>
                               ELSE <<"0", ":", "a">> >>
                         \o << <<"-c:v">>, video_encoder(has_nvidia),
                               <<"-preset">>, encoder_preset(has_nvidia),
                               <<"-c:a">>, <<"aac">>, <<"-y">>,
                               thread[t].temp_output >>]]
    /\ UNCHANGED <<queues, messagebox, files>>
    /\ worker_frame

(***************************************************************************)
(* The combine step.                                                       *)
(***************************************************************************)
\* a child process; procs holds the children a thread has started, in
\* order, and process is the place in procs of the one the Python variable
\* process refers to
Process(kind, k, argv) ==
    [kind |-> kind, k |-> k, state |-> "running", returncode |-> 0,
     stderr |-> <<>>, argv |-> argv]

current(r) == r.procs[r.process]

\* a caller that waits for no child
has_exited_unwaited(p) == TRUE

\* poll() is not None, and what communicate() and subprocess.run wait for
has_exited(p) == p.state = "exited"

\* subprocess raises OSError (FileNotFoundError) when the program cannot be
\* started
NotStarted == Exception("FileNotFoundError", <<"No such file or directory: 'ffmpeg'">>)

\* lines 146-150: subprocess.Popen
combine_popen(t) ==
    /\ thread[t].pc = "l146"
    /\ \E started \in BOOLEAN :
          thread' = [thread EXCEPT ![t] =
             IF started
             THEN [@ EXCEPT !.pc = "l151",
                            !.procs = Append(@, Process("combine", 0,
                                                        thread[t].command)),
                            !.process = Len(thread[t].procs) + 1,
                            !.progress = 0,
                            !.events = Log(@, "spawn", 0, <<"combine">>)]
             ELSE raise_in_try(@, NotStarted)]
    /\ UNCHANGED <<queues, messagebox, files>>
    /\ worker_frame

\* lines 151-154, one pass of the loop: the child is still running and the
\* simulated progress is below the ceiling
combine_tick(t) ==
    /\ thread[t].pc = "l151"
    /\ ~has_exited(current(thread[t]))
    /\ thread[t].progress < Percent(ProgressCeiling)
    /\ LET progress == thread[t].progress + ProgressStep
       IN  /\ progress_queue' = Append(progress_queue, progress)
           /\ thread' = [thread EXCEPT ![t] =
                 [@ EXCEPT !.progress = progress, !.last_put = progress]]
    /\ UNCHANGED <<status_queue, messagebox, files>>
    /\ worker_frame

\* line 151, the loop ends
combine_loop_end(t) ==
    /\ thread[t].pc = "l151"
    /\ \/ has_exited(current(thread[t]))
       \/ thread[t].progress >= Percent(ProgressCeiling)
    /\ thread' = [thread EXCEPT ![t].pc = "l157"]
    /\ UNCHANGED <<queues, messagebox, files>>
    /\ worker_frame

\* line 159
combine_failed(returncode) == returncode # 0

\* lines 157-160: communicate() returns when the child has exited
combine_communicate(t) ==
    /\ thread[t].pc = "l157"
    /\ has_exited(current(thread[t]))
    /\ thread' = [thread EXCEPT ![t] =
          IF combine_failed(current(@).returncode)
          THEN LET text == decode(current(@).stderr)
               IN  IF text.ok
                   THEN raise_in_try(@, Exception("RuntimeError",
                            <<"FFmpeg Error:\n">> \o text.val))
                   ELSE raise_in_try(@, Exception("UnicodeDecodeError", text.val))
          ELSE [@ EXCEPT !.pc = "l162"]]
    /\ UNCHANGED <<queues, messagebox, files>>
    /\ worker_frame

\* a loop that enters the segment past its status line
next_segment_unannounced(r) ==
    IF r.index < Len(r.segments)
    THEN [r EXCEPT !.pc = "l169", !.index = r.index + 1]
    ELSE [r EXCEPT !.pc = "l227"]

\* the for statement of line 219 takes the next segment, or ends
next_segment(r) ==
    IF r.index < Len(r.segments)
    THEN [r EXCEPT !.pc = "l167", !.index = r.index + 1]
    ELSE [r EXCEPT !.pc = "l227"]

\* line 162, then the loop of lines 218-219 starts
combine_checkpoint(t) ==
    /\ thread[t].pc = "l162"
    /\ progress_queue' = Append(progress_queue, Percent(CombineCheckpoint))
    /\ thread' = [thread EXCEPT ![t] =
          next_segment([@ EXCEPT !.last_put = Percent(CombineCheckpoint),
                                 !.index = 0,
                                 !.events = Log(@, "checkpoint", 0, <<>>)])]
    /\ UNCHANGED <<status_queue, messagebox, files>>
    /\ worker_frame

(***************************************************************************)
(* process_segment(segment, index, total).                                 *)
(***************************************************************************)
segment_status_text(index, total) ==
    <<"Processing segment ">> \o str_int(index) \o <<"/">> \o str_int(total)
    \o <<"...">>

\* line 167
segment_status(t) ==
    /\ thread[t].pc = "l167"
    /\ LET text == segment_status_text(thread[t].index, Len(thread[t].segments))
       IN  /\ status_queue' = Append(status_queue, text)
           /\ thread' = [thread EXCEPT ![t] =
                 [@ EXCEPT !.pc = "l169",
                           !.events = Log(@, "status", thread[t].index, text)]]
    /\ UNCHANGED <<progress_queue, messagebox, files>>
    /\ worker_frame

segment_path(dir, segment) ==
    replace(join(dir, <<"segment_">> \o replace(segment.start, ":", ".")
                      \o <<"-">> \o replace(segment.end, ":", ".")
                      \o <<".mp4">>),
            "\\", "/")

segment_command(nvidia, start_seconds, temp_output, duration, output_file) ==
    << <<"ffmpeg">>, <<"-hwaccel">>, <<"auto">>,
       <<"-ss">>, str_int(start_seconds),
       <<"-i">>, temp_output,
       <<"-t">>, str_int(duration),
       <<"-c:v">>, video_encoder(nvidia),
       <<"-preset">>, encoder_preset(nvidia),
       <<"-c:a">>, <<"aac">>,
       <<"-avoid_negative_ts">>, <<"1">>, <<"-async">>, <<"1">>,
       <<"-vsync">>, <<"cfr">>, <<"-max_muxing_queue_size">>, <<"1024">>,
       <<"-y">>, output_file >>

\* a check that lets every duration pass
invalid_duration_never(duration) == FALSE

\* line 173
invalid_duration(duration) == duration <= 0

\* lines 169-197
segment_prepare(t) ==
    /\ thread[t].pc = "l169"
    /\ thread' = [thread EXCEPT ![t] =
          LET segment == @.segments[@.index]
              start_seconds == convert_timestamp(segment.start)
              end_seconds == convert_timestamp(segment.end)
              duration == end_seconds.val - start_seconds.val
              output_file == segment_path(output_dir, segment)
          IN  IF ~start_seconds.ok
              THEN raise_in_segment(@, Exception("ValueError", start_seconds.err))
              ELSE IF ~end_seconds.ok
              THEN raise_in_segment(@, Exception("ValueError", end_seconds.err))
              ELSE IF invalid_duration(duration)
              THEN raise_in_segment(@, Exception("ValueError",
                       <<"Invalid segment duration: ">> \o segment.start
                       \o <<"-">> \o segment.end))
              ELSE [@ EXCEPT !.pc = "l199",
                             !.output_file = output_file,
                             !.command = segment_command(has_nvidia,
                                 start_seconds.val, thread[t].temp_output,
                                 duration, output_file)]]
    /\ UNCHANGED <<queues, messagebox, files>>
    /\ worker_frame

\* line 199, subprocess.run starts the child
segment_run(t) ==
    /\ thread[t].pc = "l199"
    /\ \E started \in BOOLEAN :
          thread' = [thread EXCEPT ![t] =
             IF started
             THEN [@ EXCEPT !.pc = "l199w",
                            !.procs = Append(@, Process("segment",
                                          thread[t].index, thread[t].command)),
                            !.process = Len(thread[t].procs) + 1,
                            !.events = Log(@, "spawn", thread[t].index,
                                           <<"segment">>)]
             ELSE raise_in_segment(@, NotStarted)]
    /\ UNCHANGED <<queues, messagebox, files>>
    /\ worker_frame

\* a caller that does not look at the exit status
segment_failed_never(returncode) == FALSE

\* line 200
segment_failed(returncode) == returncode # 0

\* lines 199-206: subprocess.run returns when the child has exited, having
\* decoded its output (text=True)
segment_wait(t) ==
    /\ thread[t].pc = "l199w"
    /\ has_exited(current(thread[t]))
    /\ thread' = [thread EXCEPT ![t] =
          LET text == decode(current(@).stderr)
          IN  IF ~text.ok
              THEN raise_in_segment(@, Exception("UnicodeDecodeError", text.val))
              ELSE IF segment_failed(current(@).returncode)
              THEN raise_in_segment(@, Exception("RuntimeError",
                       <<"FFmpeg Error during segmentation:\n">> \o text.val))
              ELSE [@ EXCEPT !.pc = "l208", !.i = 0]]
    /\ UNCHANGED <<queues, messagebox, files>>
    /\ worker_frame

\* lines 208-210, one pass of the loop
segment_ramp(t) ==
    /\ thread[t].pc = "l208"
    /\ LET r == thread[t]
           total == Len(r.segments)
           value == progress_start(r.index, total)
                    + r.i * progress_step(r.index, total)
       IN  /\ progress_queue' = Append(progress_queue, value)
           /\ thread' = [thread EXCEPT ![t] =
                 [@ EXCEPT !.i = r.i + 1,
                           !.last_put = value,
                           !.pc = IF r.i + 1 < RampSteps THEN "l208" ELSE "l212"]]
    /\ UNCHANGED <<status_queue, messagebox, files>>
    /\ worker_frame

\* line 212, and process_segment returns to the loop of line 219
segment_ramp_end(t) ==
    /\ thread[t].pc = "l212"
    /\ LET r == thread[t]
           value == progress_end(r.index, Len(r.segments))
       IN  /\ progress_queue' = Append(progress_queue, value)
           /\ thread' = [thread EXCEPT ![t] =
                 next_segment([@ EXCEPT !.last_put = value])]
    /\ UNCHANGED <<status_queue, messagebox, files>>
    /\ worker_frame

(***************************************************************************)
(* The finally clause, and process_thread around process_videos.           *)
(***************************************************************************)
\* a finally clause that looks for the temporary file where it is not
os_path_exists_elsewhere(path) == FALSE

\* line 227: os.path.exists(temp_output)
os_path_exists(path) == path \in files

\* lines 224-230: os.remove may raise, which is printed and dropped
cleanup(t) ==
    /\ thread[t].pc = "l227"
    /\ LET r == thread[t]
           after == IF r.exc = NoExc THEN "t412" ELSE "t415"
       IN  IF os_path_exists(r.temp_output)
           THEN \E removed \in BOOLEAN :
                   /\ files' = IF removed THEN files \ {r.temp_output} ELSE files
                   /\ thread' = [thread EXCEPT ![t] =
                         [@ EXCEPT !.pc = after,
                                   !.events = Log(@, IF removed THEN "remove"
                                                     ELSE "remove_failed", 0, <<>>)]]
           ELSE /\ thread' = [thread EXCEPT ![t].pc = after]
                /\ UNCHANGED files
    /\ UNCHANGED <<queues, messagebox>>
    /\ worker_frame

thread_frame ==
    UNCHANGED <<processor_fields, has_nvidia, nvidia_query, convert_call, queues, timestamps_text, widgets,
                polling, ui_pc, nthreads, files, edits>>

\* lines 412-413: process_videos returned
thread_complete(t) ==
    /\ thread[t].pc = "t412"
    /\ after_queue' = after_queue
          \o << Callback("status", t, <<"Complete!">>),
                Callback("showinfo", t, <<"Video processing complete!">>) >>
    /\ thread' = [thread EXCEPT ![t].pc = "t418"]
    /\ thread_frame

\* lines 414-416: process_videos raised
thread_error(t) ==
    /\ thread[t].pc = "t415"
    /\ after_queue' = after_queue
          \o << Callback("status", t, <<"Error!">>),
                Callback("showerror", t, thread[t].exc.msg) >>
    /\ thread' = [thread EXCEPT ![t].pc = "t418"]
    /\ thread_frame

\* a thread that ends without scheduling the button's return
thread_finally_silent(t) ==
    /\ thread[t].pc = "t418"
    /\ thread' = [thread EXCEPT ![t].pc = "done"]
    /\ UNCHANGED after_queue
    /\ thread_frame

\* line 418, the last statement of the thread
thread_finally(t) ==
    /\ thread[t].pc = "t418"
    /\ after_queue' = Append(after_queue, Callback("enable", t, <<>>))
    /\ thread' = [thread EXCEPT ![t].pc = "done"]
    /\ thread_frame

(***************************************************************************)
(* The child processes (ffmpeg).                                           *)
(***************************************************************************)
\* the file a command writes: its last word
output_of(argv) == argv[Len(argv)]
\* the file a segment command reads: the word after '-i'
input_of(argv) ==
    argv[1 + CHOOSE i \in 1..Len(argv) : argv[i] = <<"-i">>]

\* how a child may end: its exit status, what it left on stderr, and whether
\* its output file exists afterwards.  With status 0 the output was written;
\* a failed combine may leave a partial output.
Outcomes(kind) ==
    IF kind = "combine"
    THEN {[returncode |-> 0, stderr |-> StderrText, wrote |-> TRUE],
          [returncode |-> 1, stderr |-> StderrText, wrote |-> TRUE],
          [returncode |-> 1, stderr |-> StderrText, wrote |-> FALSE],
          [returncode |-> 1, stderr |-> StderrBinary, wrote |-> FALSE]}
    ELSE {[returncode |-> 0, stderr |-> StderrText, wrote |-> TRUE],
          [returncode |-> 0, stderr |-> StderrBinary, wrote |-> TRUE],
          [returncode |-> 1, stderr |-> StderrText, wrote |-> FALSE]}

\* child i of thread t exits.  A segment child cannot succeed without its
\* input file.
child_exit(t, i) ==
    /\ i \in DOMAIN thread[t].procs
    /\ thread[t].procs[i].state = "running"
    /\ LET p == thread[t].procs[i]
       IN  \E o \in Outcomes(p.kind) :
              /\ (o.returncode = 0 /\ p.kind = "segment")
                    => input_of(p.argv) \in files
              /\ files' = IF o.wrote THEN files \cup {output_of(p.argv)}
                          ELSE files
              /\ thread' = [thread EXCEPT ![t] =
                    [@ EXCEPT !.procs[i].state = "exited",
                              !.procs[i].returncode = o.returncode,
                              !.procs[i].stderr = o.stderr,
                              !.events = Log(@, "exit", p.k,
                                             <<p.kind, o.returncode>>)]]
    /\ UNCHANGED <<queues, messagebox>>
    /\ worker_frame

(***************************************************************************)
(* The specification.                                                      *)
(*                                                                         *)
(* Spec is the program as the pipeline sees it.  The job belongs to the    *)
(* caller for the length of a run, so the user changes the selections and  *)
(* the text only while no thread is alive; and the timer-driven polls of   *)
(* check_queues are left out, since a put on a Queue() never blocks and    *)
(* the worker reads neither queue (the call of check_queues() in the       *)
(* button's command is part of process_videos_click/_start).               *)
(***************************************************************************)
NoThreadAlive == \A t \in Threads : thread[t].pc = "none"

User ==
    \/ \E target \in {"top", "bottom"} : select_file(target)
    \/ select_audio
    \/ select_output_dir
    \/ edit_timestamps

\* the button's command, while the model may still start a thread
CappedClick == nthreads < MaxRuns /\ process_videos_click

Submit ==
    \/ CappedClick
    \/ process_videos_start
    \/ after_callback

Timer ==
    \/ check_queues_progress
    \/ check_queues_status

Validate(t) ==
    \/ check_ffmpeg(t)
    \/ validate_required(t)
    \/ validate_mp4(t)
    \/ validate_audio(t)
    \/ status_analyzing(t)
    \/ \E which \in {"top", "bottom"} : probe(t, which)

Combine(t) ==
    \/ make_temp_output(t)
    \/ status_combining(t)
    \/ command_base(t)
    \/ command_audio_input(t)
    \/ command_audio_map(t)
    \/ combine_popen(t)
    \/ combine_loop_end(t)
    \/ combine_communicate(t)
    \/ combine_checkpoint(t)

Segment(t) ==
    \/ segment_status(t)
    \/ segment_prepare(t)
    \/ segment_run(t)
    \/ segment_wait(t)
    \/ segment_ramp(t)
    \/ segment_ramp_end(t)

Finish(t) ==
    \/ cleanup(t)
    \/ thread_complete(t)
    \/ thread_error(t)
    \/ thread_finally(t)

\* every step of thread t but a pass of the combine loop
Worker(t) == Validate(t) \/ Combine(t) \/ Segment(t) \/ Finish(t)

\* a pass of the combine loop, for a child that exits within MaxCombineTicks
\* polls
ShortTick(t) ==
    /\ thread[t].progress < MaxCombineTicks * ProgressStep
    /\ combine_tick(t)

QuietUser == NoThreadAlive /\ User

AnyExit(t) == \E i \in DOMAIN thread[t].procs : child_exit(t, i)

Next ==
    \/ QuietUser
    \/ Submit
    \/ \E t \in Threads : Worker(t) \/ ShortTick(t) \/ AnyExit(t)

Spec == Init /\ [][Next]_vars

(***************************************************************************)
(* SpecRamp is Spec with a slow combine child: the loop of line 151 runs   *)
(* until the simulated progress has passed the checkpoint value, where the *)
(* child may exit within MaxCombineTicks passes, or on to the ceiling,     *)
(* where the loop ends with the child still running.                       *)
(***************************************************************************)
SlowChild(t, i) ==
    LET r == thread[t]
    IN  r.procs[i].kind = "combine" =>
           \/ r.pc = "l157"
           \/ /\ r.progress > Percent(CombineCheckpoint)
              /\ r.progress <= Percent(CombineCheckpoint)
                               + MaxCombineTicks * ProgressStep

SlowExit(t) ==
    \E i \in DOMAIN thread[t].procs : SlowChild(t, i) /\ child_exit(t, i)

NextRamp ==
    \/ QuietUser
    \/ Submit
    \/ \E t \in Threads : Worker(t) \/ combine_tick(t) \/ SlowExit(t)

SpecRamp == Init /\ [][NextRamp]_vars

(***************************************************************************)
(* What a run has done, read from the state of its thread.                 *)
(***************************************************************************)
\* process_videos has returned or raised: control is back in process_thread
Terminated(t) == thread[t].pc \in {"t412", "t415", "t418", "done"}
\* it returned, and process_thread reports "Complete!"
Returned(t) == Terminated(t) /\ thread[t].exc = NoExc
\* it raised, and process_thread reports the exception
Raised(t) == Terminated(t) /\ thread[t].exc # NoExc

Logged(t, op) == {i \in DOMAIN thread[t].events : thread[t].events[i].op = op}
Exits(t, kind, k) ==
    {i \in Logged(t, "exit") : /\ thread[t].events[i].k = k
                               /\ thread[t].events[i].arg[1] = kind}
ExitedWith(t, kind, k, rcs) ==
    \E i \in Exits(t, kind, k) : thread[t].events[i].arg[2] \in rcs
Running(t) == {i \in DOMAIN thread[t].procs : ~has_exited(thread[t].procs[i])}

(***************************************************************************)
(* C1.  Within one run the values put on the progress queue never go down: *)
(* each value put is at least the value put before it.                     *)
(***************************************************************************)
C1_ProgressNeverDecreases ==
    [][\A t \in Threads :
          (thread[t].last_put # -1 /\ thread'[t].last_put # -1)
             => thread'[t].last_put >= thread[t].last_put]_vars

(***************************************************************************)
(* C2.  A run is reported complete only if the combine process exited with *)
(* status 0 and the extraction process of every parsed segment exited with *)
(* status 0.                                                               *)
(***************************************************************************)
C2_CompleteOnlyAfterEverySuccess ==
    \A t \in Threads :
       Returned(t) =>
          /\ ExitedWith(t, "combine", 0, {0})
          /\ \A k \in DOMAIN thread[t].segments :
                ExitedWith(t, "segment", k, {0})

(***************************************************************************)
(* C3.  A run that reached "Combining videos..." and has terminated, in    *)
(* success or in failure, with no failed delete, has left no temporary     *)
(* combined file: the file is gone by the time the outcome is handed to    *)
(* process_thread.                                                         *)
(***************************************************************************)
ReachedCombining(t) ==
    \E i \in Logged(t, "status") :
       thread[t].events[i].arg = <<"Combining videos...">>

C3_TempGoneAfterCombining ==
    \A t \in Threads :
       (Terminated(t) /\ ReachedCombining(t) /\ Logged(t, "remove_failed") = {})
          => thread[t].temp_output \notin files

\* a run whose combine child wrote the file and whose segment then failed
C3_Witness ==
    \E t \in Threads :
       /\ Raised(t) /\ ReachedCombining(t)
       /\ ExitedWith(t, "combine", 0, {0})
       /\ Logged(t, "raise") # {}
       /\ Logged(t, "remove") # {}
       /\ thread[t].temp_output \notin files

(***************************************************************************)
(* C4.  A run in which the probe of the top or of the bottom video failed  *)
(* has terminated in failure and has left no temporary combined file in    *)
(* the output directory, also when the file was there before the run.      *)
(***************************************************************************)
ProbeFailed(t) == Terminated(t) /\ thread[t].exc.type = "Error"

C4_TempGoneAfterProbeFailure ==
    \A t \in Threads :
       ProbeFailed(t) => Raised(t) /\ temp_path(output_dir) \notin files

(***************************************************************************)
(* C5.  A run on a job that fails validation (a required field unset, a    *)
(* video path that does not end in .mp4, an audio path with none of the    *)
(* four extensions) fails with an error, starts no probe and no child      *)
(* process, creates and deletes no file, and puts nothing on either queue. *)
(***************************************************************************)
JobInvalid ==
    \/ top_video = None \/ bottom_video = None \/ output_dir = None
    \/ ~endswith(top_video, Mp4Suffix) \/ ~endswith(bottom_video, Mp4Suffix)
    \/ /\ audio_file # None
       /\ \A suffix \in AudioSuffixes : ~endswith(lower(audio_file), suffix)

Untouched(t) ==
    /\ thread[t].events = <<>> /\ thread[t].procs = <<>>
    /\ thread[t].last_put = -1
    /\ status_queue = <<>> /\ progress_queue = <<>>

C5_InvalidJobFailsUntouched ==
    \A t \in Threads :
       (Terminated(t) /\ JobInvalid) => Raised(t) /\ Untouched(t)

(***************************************************************************)
(* C6.  Once the extraction of segment k has failed (its process exited    *)
(* with a non-zero status, or the step raised), no process is started for  *)
(* a later segment, the files of segments 1..k-1 are on disk, and the run  *)
(* terminates with an error whose message holds the range start-end of     *)
(* segment k.                                                              *)
(***************************************************************************)
SegmentFailure(t, k) ==
    \/ \E i \in Exits(t, "segment", k) : thread[t].events[i].arg[2] # 0
    \/ \E i \in Logged(t, "raise") : thread[t].events[i].k = k

RangeOf(segment) == segment.start \o <<"-">> \o segment.end

C6_SegmentFailureEndsRun ==
    \A t \in Threads : \A k \in DOMAIN thread[t].segments :
       SegmentFailure(t, k) =>
          /\ \A i \in DOMAIN thread[t].procs : thread[t].procs[i].k <= k
          /\ thread[t].index = k
          /\ \A j \in 1..(k - 1) :
                segment_path(output_dir, thread[t].segments[j]) \in files
          /\ Terminated(t) =>
                /\ Raised(t)
                /\ Contains(thread[t].exc.msg, RangeOf(thread[t].segments[k]))

\* the second of three segments failed after the first was written
C6_Witness ==
    \E t \in Threads :
       /\ Raised(t)
       /\ Len(thread[t].segments) = 3
       /\ ExitedWith(t, "segment", 1, {0})
       /\ SegmentFailure(t, 2)
       /\ ExitedWith(t, "segment", 2, {1})

(***************************************************************************)
(* C7.  Once the combine process has exited with a non-zero status, the    *)
(* checkpoint 30 is not put, no "Processing segment" status is put, no     *)
(* segment process is started, and the run terminates with an error whose  *)
(* message holds what the process wrote to stderr.                         *)
(***************************************************************************)
CombineFailure(t) ==
    \E i \in Exits(t, "combine", 0) : thread[t].events[i].arg[2] # 0

\* the text of captured bytes, a byte that is no text shown as U+FFFD
ShownAs(bytes) ==
    [i \in 1..Len(bytes) |-> IF bytes[i] < 128 THEN Chr(bytes[i]) ELSE "U+FFFD"]

CombineStderr(t) ==
    LET i == CHOOSE i \in DOMAIN thread[t].procs :
                thread[t].procs[i].kind = "combine"
    IN  thread[t].procs[i].stderr

NoSegmentWork(t) ==
    /\ Logged(t, "checkpoint") = {}
    /\ \A i \in Logged(t, "status") : thread[t].events[i].k = 0
    /\ \A i \in DOMAIN thread[t].procs : thread[t].procs[i].kind = "combine"

C7_CombineFailureCarriesStderr ==
    \A t \in Threads :
       CombineFailure(t) =>
          /\ NoSegmentWork(t)
          /\ Terminated(t) =>
                /\ Raised(t)
                /\ Contains(thread[t].exc.msg, ShownAs(CombineStderr(t)))

(***************************************************************************)
(* C8.  While a background run is in progress, from the start of its       *)
(* thread until the callback that enables the button again, the button is  *)
(* disabled, so that its command cannot run and no second run can start;   *)
(* at most one thread exists at any time.                                  *)
(***************************************************************************)
InProgress(t) == thread[t].pc \notin {"none", "new"}

SpawnOf(t, k) ==
    CHOOSE i \in Logged(t, "spawn") : thread[t].events[i].k = k

ChildrenInOrder(t) ==
    \A i \in DOMAIN thread[t].procs :
       LET p == thread[t].procs[i]
       IN  /\ p.k = i - 1
           /\ p.kind = (IF i = 1 THEN "combine" ELSE "segment")
           /\ p.kind = "segment" =>
                 /\ p.k \in DOMAIN thread[t].segments
                 /\ thread[t].segments = parse_timestamps(timestamps_text).val
                 /\ output_of(p.argv)
                       = segment_path(output_dir, thread[t].segments[p.k])
                 /\ input_of(p.argv) = thread[t].temp_output
                 /\ \E e \in Exits(t, "combine", 0) :
                       /\ e < SpawnOf(t, p.k)
                       /\ thread[t].events[e].arg[2] = 0
                 /\ p.k > 1 =>
                       \E e \in Exits(t, "segment", p.k - 1) :
                          e < SpawnOf(t, p.k)

C9_ChildrenNeverOverlap ==
    \A t \in Threads :
       /\ Cardinality(Running(t)) <= 1
       /\ ChildrenInOrder(t)
       /\ \A i \in Running(t) :
             thread[t].procs[i].kind = "segment"
                => thread[t].temp_output \in files
       /\ \A r \in Logged(t, "remove") :
             /\ Running(t) = {}
             /\ \A i \in Logged(t, "spawn") \cup Logged(t, "exit") : i < r

\* the process of the second segment runs, after the first one wrote its file
C9_Witness ==
    \E t \in Threads :
       /\ Len(thread[t].procs) = 3
       /\ Running(t) = {3}
       /\ thread[t].procs[3].kind = "segment"
       /\ segment_path(output_dir, thread[t].segments[1]) \in files

(***************************************************************************)
(* C10.  parse_timestamps accepts a text only if every line of it that is  *)
(* not blank is, once trimmed, exactly DD:DD-DD:DD and nothing more; it    *)
(* rejects any other text with a message that holds the offending line,    *)
(* and no run is started on such a text.                                   *)
(***************************************************************************)
ExactRange(line) ==
    /\ Len(line) = 11
    /\ \A i \in {1, 2, 4, 5, 7, 8, 10, 11} : line[i] \in Digits
    /\ line[3] = ":" /\ line[6] = "-" /\ line[9] = ":"

Offending(text) ==
    LET lines == split(text \o <<"\n">>, "\n")
    IN  {strip(lines[i]) : i \in DOMAIN lines}
           \ ({<<>>} \cup {strip(lines[i]) : i \in {j \in DOMAIN lines :
                                                     ExactRange(strip(lines[j]))}})

C10_OnlyExactRangesAccepted ==
    Offending(timestamps_text) # {} =>
       /\ ~parse_timestamps(timestamps_text).ok
       /\ \E line \in Offending(timestamps_text) :
             Contains(parse_timestamps(timestamps_text).err, line)
       /\ \A t \in Threads : thread[t].pc = "none"

(***************************************************************************)
(* C11.  Every segment parse_timestamps returns, and so every segment of a *)
(* run, ends after it starts once both are converted to seconds, and has   *)
(* both seconds fields below 60.                                           *)
(***************************************************************************)
SecondsField(timestamp) == DigitsValue(SubSeq(timestamp, 4, 5))

WellFormed(segment) ==
    /\ convert_timestamp(segment.end).val > convert_timestamp(segment.start).val
    /\ SecondsField(segment.start) < 60
    /\ SecondsField(segment.end) < 60

C11_SegmentsEndAfterStart ==
    /\ LET timestamps == parse_timestamps(timestamps_text)
       IN  timestamps.ok =>
              \A k \in DOMAIN timestamps.val : WellFormed(timestamps.val[k])
    /\ \A t \in Threads : \A k \in DOMAIN thread[t].segments :
          WellFormed(thread[t].segments[k])

(***************************************************************************)
(* C12.  For a segment whose end in seconds is not after its start, no     *)
(* extraction process is started and no output file is produced, and once  *)
(* the run comes to process it the run fails with the error "Invalid       *)
(* segment duration".                                                      *)
(***************************************************************************)
NoDuration(segment) ==
    convert_timestamp(segment.end).val <= convert_timestamp(segment.start).val

Passed(t, k) ==
    \/ thread[t].index > k
    \/ thread[t].index = k /\ thread[t].pc \notin {"l167", "l169"}

C12_NoDurationNoExtraction ==
    \A t \in Threads : \A k \in DOMAIN thread[t].segments :
       NoDuration(thread[t].segments[k]) =>
          /\ \A i \in DOMAIN thread[t].procs : thread[t].procs[i].k # k
          /\ segment_path(output_dir, thread[t].segments[k]) \notin files
          /\ Passed(t, k) =>
                /\ thread[t].index = k
                /\ \E i \in Logged(t, "raise") :
                      /\ thread[t].events[i].k = k
                      /\ thread[t].events[i].arg = "ValueError"
                /\ thread[t].exc # NoExc
                /\ Contains(thread[t].exc.msg, <<"Invalid segment duration: ">>)

\* a run that came to a segment that ends before it starts
C12_Witness ==
    \E t \in Threads : \E k \in DOMAIN thread[t].segments :
       /\ NoDuration(thread[t].segments[k])
       /\ Passed(t, k)
       /\ Raised(t)
       /\ ExitedWith(t, "combine", 0, {0})

(***************************************************************************)
(* C13.  No two segments of a run are written to the same path, and a run  *)
(* whose combine process and segment processes all succeeded has left as   *)
(* many segment files in the output directory as it had segments.          *)
(***************************************************************************)
SegmentFiles(t) ==
    {segment_path(output_dir, thread[t].segments[k]) :
        k \in DOMAIN thread[t].segments}

C13_OneFilePerSegment ==
    \A t \in Threads :
       /\ \A i, j \in DOMAIN thread[t].procs :
             (i # j /\ thread[t].procs[i].kind = "segment"
                    /\ thread[t].procs[j].kind = "segment")
                => output_of(thread[t].procs[i].argv)
                      # output_of(thread[t].procs[j].argv)
       /\ (Returned(t) /\ ExitedWith(t, "combine", 0, {0})) =>
             Cardinality(SegmentFiles(t) \cap files) = Len(thread[t].segments)

(***************************************************************************)
(* convert_timestamp called on its own, on every text DD:DD.               *)
(***************************************************************************)
Stamps == {<<a, b, ":", c, d>> : a, b, c, d \in Digits}

Call(timestamp) ==
    [timestamp |-> timestamp, returned |-> FALSE, result |-> NoResult]

convert_timestamp_call ==
    /\ convert_call # NoCall
    /\ ~convert_call.returned
    /\ convert_call' =
          [convert_call EXCEPT
              !.returned = TRUE,
              !.result = convert_timestamp(convert_call.timestamp)]
    /\ UNCHANGED <<processor_fields, has_nvidia, nvidia_query, queues,
                   timestamps_text, widgets, after_queue, polling, ui_pc,
                   thread, nthreads, files, edits>>

InitConvert ==
    /\ Constructed({QueryRaised})
    /\ convert_call \in {Call(timestamp) : timestamp \in Stamps}

NextConvert == convert_timestamp_call

SpecConvert == InitConvert /\ [][NextConvert]_vars

(***************************************************************************)
(* C14.  On valid MM:SS text (minutes 00..99, seconds 00..59)              *)
(* convert_timestamp is one-to-one and onto a range of integers from 0,    *)
(* and writing a returned integer as MM:SS and converting it again gives   *)
(* the same integer.  As first stated the range is the integers below      *)
(* 4000; as amended it is the integers below 6000 (99*60+59 is 5999).      *)
(***************************************************************************)
ValidStamp(timestamp) == SecondsField(timestamp) < 60

\* n written as MM:SS
FormatStamp(n) ==
    <<DigitChar((n \div 60) \div 10), DigitChar((n \div 60) % 10), ":",
      DigitChar((n % 60) \div 10), DigitChar(n % 10)>>

Converted ==
    /\ convert_call.returned
    /\ ValidStamp(convert_call.timestamp)

\* the returned integer is in 0..limit-1, names its text, and converts back
RoundTrip(limit) ==
    Converted =>
       /\ convert_call.result.ok
       /\ convert_call.result.val \in 0..(limit - 1)
       /\ FormatStamp(convert_call.result.val) = convert_call.timestamp
       /\ convert_timestamp(FormatStamp(convert_call.result.val)).val
             = convert_call.result.val

\* as many valid texts as integers in the range: with one-to-one, onto
\* (counted once, in the state of the call on 00:00)
AsManyAs(limit) ==
    (Converted /\ convert_call.result.val = 0) =>
       Cardinality({timestamp \in Stamps : ValidStamp(timestamp)}) = limit

C14_OntoBelow4000 == RoundTrip(4000) /\ AsManyAs(4000)

C14_OntoBelow6000 == RoundTrip(6000) /\ AsManyAs(6000)

\* the call on 99:59 has returned 5999
C14_Witness ==
    /\ Converted
    /\ convert_call.timestamp = <<"9", "9", ":", "5", "9">>
    /\ convert_call.result.val = 5999

(***************************************************************************)
(* C15.  A run of N >= 1 segments that returned normally has put 100 last  *)
(* on the progress queue; the ramp of segment i puts only values of its    *)
(* span [30 + 70*(i-1)/N, 30 + 70*i/N], and the upper bound last.          *)
(***************************************************************************)
InSpan(value, index, total) ==
    /\ progress_start(index, total) <= value
    /\ value <= progress_end(index, total)

RampInSpan(t) ==
    LET r == thread[t]
        total == Len(r.segments)
    IN  /\ ((r.pc = "l208" /\ r.i >= 1) \/ r.pc = "l212")
              => InSpan(r.last_put, r.index, total)
        /\ (r.pc = "l167" /\ r.index > 1)
              => r.last_put = progress_end(r.index - 1, total)

C15_LastProgressIs100 ==
    \A t \in Threads :
       /\ RampInSpan(t)
       /\ (Returned(t) /\ Len(thread[t].segments) >= 1)
             => thread[t].last_put = Percent(100)

(***************************************************************************)
(* The program started after any outcome of 'ffmpeg -encoders'.            *)
(***************************************************************************)
InitEncoders == Constructed(Queries) /\ convert_call = NoCall

SpecEncoders == InitEncoders /\ [][Next]_vars

(***************************************************************************)
(* C16.  When the query 'ffmpeg -encoders' failed (it could not be run, it *)
(* raised, or it exited with a non-zero status) has_nvidia is false and    *)
(* every command uses libx264 / ultrafast; h264_nvenc / p1 is used only    *)
(* when the query succeeded and its output lists h264_nvenc.               *)
(***************************************************************************)
QueryFailed == nvidia_query.raised \/ nvidia_query.returncode # 0

Hardware(argv) ==
    \E i \in DOMAIN argv : argv[i] \in {<<"h264_nvenc">>, <<"p1">>}
Software(argv) ==
    /\ \E i \in DOMAIN argv : argv[i] = <<"libx264">>
    /\ \E i \in DOMAIN argv : argv[i] = <<"ultrafast">>

C16_FailedQueryMeansSoftware ==
    /\ QueryFailed => ~has_nvidia
    /\ has_nvidia => nvidia_query.lists
    /\ \A t \in Threads : \A i \in DOMAIN thread[t].procs :
          LET argv == thread[t].procs[i].argv
          IN  /\ QueryFailed => (Software(argv) /\ ~Hardware(argv))
              /\ Hardware(argv) => (~QueryFailed /\ nvidia_query.lists)

(***************************************************************************)
(* C17.  As first stated: the status "Processing segment i/N..." is put    *)
(* only after the extraction process of segment i has exited with status   *)
(* 0.  As amended: it is put once, before anything else is done for        *)
(* segment i and so before its extraction process is started, after the    *)
(* combine process and the processes of all earlier segments exited with   *)
(* status 0; it is put also for a segment that then fails.                 *)
(***************************************************************************)
SegmentStatuses(t) ==
    {i \in Logged(t, "status") : thread[t].events[i].k >= 1}

C17_StatusAfterExtraction ==
    \A t \in Threads : \A i \in SegmentStatuses(t) :
       \E e \in Exits(t, "segment", thread[t].events[i].k) :
          e < i /\ thread[t].events[e].arg[2] = 0

C17_StatusBeforeExtraction ==
    \A t \in Threads :
       /\ \A i \in SegmentStatuses(t) :
             LET k == thread[t].events[i].k
             IN  /\ thread[t].events[i].arg
                       = segment_status_text(k, Len(thread[t].segments))
                 /\ \A j \in DOMAIN thread[t].events :
                       (thread[t].events[j].k = k /\ j # i) => j > i
                 /\ \E e \in Exits(t, "combine", 0) :
                       e < i /\ thread[t].events[e].arg[2] = 0
                 /\ \A h \in 1..(k - 1) :
                       \E e \in Exits(t, "segment", h) :
                          e < i /\ thread[t].events[e].arg[2] = 0
       /\ \A j \in DOMAIN thread[t].events :
             (thread[t].events[j].k >= 1
                 /\ thread[t].events[j].op \in {"spawn", "exit", "raise"})
                => \E i \in SegmentStatuses(t) :
                      i < j /\ thread[t].events[i].k = thread[t].events[j].k

\* the status of the second segment was put and its process then failed
C17_Witness ==
    \E t \in Threads :
       /\ \E i \in SegmentStatuses(t) : thread[t].events[i].k = 2
       /\ ExitedWith(t, "segment", 2, {1})
       /\ Raised(t)

(***************************************************************************)
(* The program with its scheduling: the event loop runs every callback it  *)
(* was given, a thread that can take a step takes it, and a child process  *)
(* exits, at the latest once communicate() or subprocess.run reads its     *)
(* pipes.                                                                  *)
(***************************************************************************)
Fairness ==
    /\ WF_vars(process_videos_start \/ after_callback)
    /\ \A t \in Threads :
          /\ WF_vars(Worker(t) \/ combine_tick(t))
          /\ WF_vars(SlowExit(t))

SpecLive == Init /\ [][NextRamp]_vars /\ Fairness

(***************************************************************************)
(* C18.  Every run that was started terminates: its thread schedules one   *)
(* terminal notification ("Complete!" or "Error!") and then the return of  *)
(* the button to normal, and the button is normal again in the end.        *)
(***************************************************************************)
Scheduled(t) ==
    LET of_t == {i \in DOMAIN after_queue : after_queue[i].t = t}
    IN  [i \in 1..Cardinality(of_t) |->
            after_queue[CHOOSE j \in of_t :
                           Cardinality({h \in of_t : h <= j}) = i].fn]

TerminalThenEnable(t) ==
    \E show \in {"showinfo", "showerror"} :
       \E a, b \in 0..3 :
          Scheduled(t) = SubSeq(<<"status", show, "enable">>, a + 1, b)

Started(t) == thread[t].pc \notin {"none", "new"}

C18_RunsTerminate ==
    /\ [](\A t \in Threads : TerminalThenEnable(t))
    /\ \A t \in Threads :
          Started(t) ~> (thread[t].pc = "none" /\ process_btn = "normal")

\* a run whose combine loop went on to its ceiling waits for the child
C18_Witness ==
    \E t \in Threads :
       /\ thread[t].pc = "l157"
       /\ thread[t].progress = Percent(ProgressCeiling)
       /\ Running(t) # {}

(***************************************************************************)
(* The program with the timer of check_queues.  A poll that finds both     *)
(* queues empty changes nothing and is left out.                           *)
(***************************************************************************)
PendingTimer ==
    /\ progress_queue # <<>> \/ status_queue # <<>> \/ ui_pc = "cq392"
    /\ Timer

NextPoll ==
    \/ QuietUser
    \/ Submit
    \/ PendingTimer
    \/ \E t \in Threads : Worker(t) \/ ShortTick(t) \/ AnyExit(t)

SpecPoll == Init /\ [][NextPoll]_vars

(***************************************************************************)
(* C19.  Once a run is over (its thread ended, its callbacks ran) and the  *)
(* polls have emptied both queues, the status label shows the terminal     *)
(* label of the run, "Complete!" or "Error!": no status the run put on the *)
(* queue is shown after it.                                                *)
(***************************************************************************)
RunOver ==
    /\ nthreads >= 1
    /\ NoThreadAlive
    /\ after_queue = <<>>
    /\ ui_pc = "idle"
    /\ progress_queue = <<>> /\ status_queue = <<>>

C19_TerminalLabelShown ==
    RunOver => status_label \in {<<"Complete!">>, <<"Error!">>}

(***************************************************************************)
(* The program with a user who keeps selecting files and directories while *)
(* a run is in progress: the dialogs stay available, only the button is    *)
(* disabled.                                                               *)
(***************************************************************************)
Selecting ==
    /\ ~NoThreadAlive
    /\ \/ \E target \in {"top", "bottom"} : select_file(target)
       \/ select_audio
       \/ select_output_dir

NextEdit ==
    \/ QuietUser
    \/ Selecting
    \/ Submit
    \/ \E t \in Threads : Worker(t) \/ ShortTick(t) \/ AnyExit(t)

SpecEdit == Init /\ [][NextEdit]_vars

(***************************************************************************)
(* C20.  A run uses one snapshot of the job, whatever the user selects     *)
(* while it is in progress: its combine command maps '2:a' exactly when it *)
(* has a third '-i' input, the two videos it passes are the probed ones    *)
(* and, like the audio, of a validated format, and every segment file is   *)
(* written into the directory of the run's temporary file.                 *)
(***************************************************************************)
Inputs(argv) == {i \in 1..Len(argv) : argv[i] = <<"-i">>}

MapsThirdAudio(argv) ==
    \E i \in 1..(Len(argv) - 1) :
       argv[i] = <<"-map">> /\ argv[i + 1] = <<"2", ":", "a">>

Probed(t) ==
    {replace(thread[t].events[i].arg, "\\", "/") : i \in Logged(t, "probe")}

Snapshot(t, p) ==
    IF p.kind = "combine"
    THEN /\ MapsThirdAudio(p.argv) <=> Cardinality(Inputs(p.argv)) = 3
         /\ {p.argv[5], p.argv[7]} = Probed(t)
         /\ endswith(p.argv[5], Mp4Suffix) /\ endswith(p.argv[7], Mp4Suffix)
         /\ Cardinality(Inputs(p.argv)) = 3 =>
               \E suffix \in AudioSuffixes : endswith(lower(p.argv[9]), suffix)
    ELSE \E dir \in Dirs :
            /\ thread[t].temp_output = temp_path(dir)
            /\ output_of(p.argv) = segment_path(dir, thread[t].segments[p.k])

C20_RunUsesOneSnapshot ==
    \A t \in Threads :
       \A i \in DOMAIN thread[t].procs : Snapshot(t, thread[t].procs[i])

====
